---- MODULE Spec2Model ----
(***************************************************************************)
(* printc! (src/lib.rs): a debug-echo macro.  An invocation is matched     *)
(* against the three macro arms in order, transcribed, compiled and then   *)
(* run: each argument is evaluated by `match $val`, bound to `tmp`,        *)
(* printed with println!("{} = {:#?}", stringify!($val), &tmp) and         *)
(* yielded.                                                                *)
(***************************************************************************)
EXTENDS Integers, Sequences, FiniteSets, TLC

\* Largest number of arguments of one invocation.
MaxArgs == 2
\* Number of invocations a program run performs one after the other.
MaxCalls == 2

(***************************************************************************)
(* Call-site expressions.  An expression is the sequence of lexemes        *)
(* written at the call site, whitespace (" ") included.                    *)
(***************************************************************************)
Exprs ==
    { <<"1", " ", "+", " ", "2">>,
      <<"1", "+", "2">>,
      <<"1", " ", " ", "+", " ", " ", "2">>,
      <<"inc()">>,
      <<"inc()", " ", "+", " ", "1">>,
      <<"\"x\"">>,
      <<"vec![1]">> }

RECURSIVE Concat(_)
\* The characters of a lexeme sequence, as one string.
Concat(s) == IF s = <<>> THEN "" ELSE Head(s) \o Concat(Tail(s))

\* The text of an expression exactly as written at the call site.
SourceText(e) == Concat(e)

RECURSIVE Tokens(_)
\* The tokens of an expression: the lexer drops whitespace.
Tokens(e) ==
    IF e = <<>> THEN <<>>
    ELSE IF Head(e) = " " THEN Tokens(Tail(e))
    ELSE <<Head(e)>> \o Tokens(Tail(e))

(***************************************************************************)
(* Values: a tagged record, so that integers, strings and vectors can      *)
(* live in the same tuple.                                                 *)
(***************************************************************************)
IntVal(n) == [k |-> "int", n |-> n, s |-> "", e |-> <<>>]
StrVal(s) == [k |-> "str", n |-> 0, s |-> s, e |-> <<>>]
VecVal(e) == [k |-> "vec", n |-> 0, s |-> "", e |-> e]

\* Evaluation of one operand in program state c (a counter that inc() bumps).
EvalOperand(t, c) ==
    CASE t = "1"       -> [val |-> IntVal(1), st |-> c]
      [] t = "2"       -> [val |-> IntVal(2), st |-> c]
      [] t = "inc()"   -> [val |-> IntVal(c + 1), st |-> c + 1]
      [] t = "\"x\""   -> [val |-> StrVal("x"), st |-> c]
      [] t = "vec![1]" -> [val |-> VecVal(<<1>>), st |-> c]

RECURSIVE EvalTokens(_, _)
\* operand (+ operand)*, evaluated left to right.
EvalTokens(ts, c) ==
    IF Len(ts) = 1 THEN EvalOperand(ts[1], c)
    ELSE LET l == EvalTokens(SubSeq(ts, 1, Len(ts) - 2), c)
             r == EvalOperand(ts[Len(ts)], l.st)
         IN  [val |-> IntVal(l.val.n + r.val.n), st |-> r.st]

\* The value of expression e and the program state it leaves, from state c.
Eval(e, c) == EvalTokens(Tokens(e), c)

(***************************************************************************)
(* stringify!($val) and the {:#?} rendering used by the println! of the    *)
(* single-expression arm.                                                  *)
(***************************************************************************)
RECURSIVE PrintTokens(_)
\* The pretty-printer's rendering of a token sequence: a binary operator
\* gets one space on each side, whatever the call site wrote.
PrintTokens(ts) ==
    IF ts = <<>> THEN ""
    ELSE IF Head(ts) = "+" THEN " + " \o PrintTokens(Tail(ts))
    ELSE Head(ts) \o PrintTokens(Tail(ts))

\* stringify!($val) for an expr fragment.
Stringify(e) == PrintTokens(Tokens(e))

Digits == <<"0", "1", "2", "3", "4", "5", "6", "7", "8", "9">>

RECURSIVE Decimal(_)
\* Decimal rendering of a natural number.
Decimal(n) ==
    IF n < 10 THEN Digits[n + 1]
    ELSE Decimal(n \div 10) \o Digits[(n % 10) + 1]

RECURSIVE PrettyElems(_)
\* The elements of a list in {:#?} form: one per line, indented, with a comma.
PrettyElems(xs) ==
    IF xs = <<>> THEN ""
    ELSE "    " \o Decimal(Head(xs)) \o ",\n" \o PrettyElems(Tail(xs))

\* The {:#?} rendering of a value.
PrettyDebug(v) ==
    CASE v.k = "int" -> Decimal(v.n)
      [] v.k = "str" -> "\"" \o v.s \o "\""
      [] v.k = "vec" -> IF v.e = <<>> THEN "[]"
                        ELSE "[\n" \o PrettyElems(v.e) \o "]"

\* Faulty variant: the label is the rendering of the value, not the text of $val.
FormatLineValueLabel(e, v) == PrettyDebug(v) \o " = " \o PrettyDebug(v) \o "\n"

\* What println!("{} = {:#?}", stringify!($val), &tmp) writes to stdout.
FormatLine(e, v) == Stringify(e) \o " = " \o PrettyDebug(v) \o "\n"

(***************************************************************************)
(* Macro matching and transcription.  An invocation is its argument list   *)
(* and whether a comma follows the last argument.                          *)
(***************************************************************************)
\* ()
Arm1Matches(n, cm) == n = 0 /\ ~cm
\* ($val:expr $(,)?)
Arm2Matches(n, cm) == n = 1
\* Faulty variant: ($($val:expr),+), no trailing comma accepted.
Arm3NoTrailingComma(n, cm) == n >= 1 /\ ~cm

\* ($($val:expr),+ $(,)?)
Arm3Matches(n, cm) == n >= 1

\* The first arm whose pattern matches, 0 when no rule matches.
MatchArm(n, cm) ==
    IF Arm1Matches(n, cm) THEN 1
    ELSE IF Arm2Matches(n, cm) THEN 2
    ELSE IF Arm3Matches(n, cm) THEN 3
    ELSE 0

\* Faulty variant: arm 3 transcribes its arguments last to first.
TranscribeReversed(arm, as) ==
    CASE arm = 1 -> [kind |-> "tokens", toks |-> <<"$", "println", "!", "(", ")">>,
                     elems |-> <<>>]
      [] arm = 2 -> [kind |-> "match", toks |-> <<>>, elems |-> as]
      [] arm = 3 -> [kind |-> IF Len(as) = 1 THEN "paren" ELSE "tuple",
                     toks |-> <<>>,
                     elems |-> [i \in DOMAIN as |-> as[Len(as) + 1 - i]]]
      [] OTHER   -> [kind |-> "nomatch", toks |-> <<>>, elems |-> <<>>]

\* The transcription of the matching arm.  `$println` names no macro
\* variable of arm 1, so it is transcribed as the two tokens `$` `println`.
\* Arm 3 yields one nested invocation printc!($val) per argument, between
\* parentheses: a tuple for two or more, a parenthesised expression for one.
Transcribe(arm, as) ==
    CASE arm = 1 -> [kind |-> "tokens", toks |-> <<"$", "println", "!", "(", ")">>,
                     elems |-> <<>>]
      [] arm = 2 -> [kind |-> "match", toks |-> <<>>, elems |-> as]
      [] arm = 3 -> [kind |-> IF Len(as) = 1 THEN "paren" ELSE "tuple",
                     toks |-> <<>>, elems |-> as]
      [] OTHER   -> [kind |-> "nomatch", toks |-> <<>>, elems |-> <<>>]

\* Whether the expansion is an expression the compiler accepts: an
\* expression cannot start with `$`, and each nested printc!($val) of arm 3
\* must itself expand to the match of arm 2.
Compiles(c) ==
    CASE c.kind = "match"   -> TRUE
      [] c.kind \in {"paren", "tuple"} -> MatchArm(1, FALSE) = 2
      [] OTHER -> FALSE

NoVal == [k |-> "none", n |-> 0, s |-> "", e |-> <<>>]
NoCode == [kind |-> "none", toks |-> <<>>, elems |-> <<>>]
NoResult == [shape |-> "none", vals |-> <<>>]

\* The argument lists a single invocation is checked with.
ArgLists == UNION { [1..n -> Exprs] : n \in 0..MaxArgs }

\* The expressions and argument lists of a run of several invocations.
SeqExprs == { <<"inc()">>, <<"1", "+", "2">> }
SeqArgLists == UNION { [1..n -> SeqExprs] : n \in 0..MaxArgs }

\* The caller's counter, and what stdout already holds, when a run starts.
StartCounters == {0, 9}
PriorOut == { <<>>, <<"hello\n">> }

VARIABLES
    args,       \* the expressions of the current invocation
    comma,      \* whether a comma follows the last expression
    pc,         \* "expand", "eval", "print", "yield", "done", "panicked",
                \* "compile_error"
    code,       \* the expansion of the invocation
    idx,        \* the argument being processed
    tmp,        \* the hidden temporary of the match
    counter,    \* the caller's state, which inc() changes
    out,        \* stdout: the writes made so far
    result,     \* the values yielded so far and, once done, the result
    log,        \* the events of the current invocation
    calls,      \* invocations started so far
    c0,         \* counter when the current invocation started
    out0        \* out when the current invocation started

vars == <<args, comma, pc, code, idx, tmp, counter, out, result, log, calls, c0, out0>>

\* The state in which an invocation of argument list a starts.
Start(a, cm, c, o) ==
    /\ args = a
    /\ comma = cm
    /\ pc = "expand"
    /\ code = NoCode
    /\ idx = 0
    /\ tmp = NoVal
    /\ counter = c
    /\ out = o
    /\ result = NoResult
    /\ log = <<>>
    /\ calls = 1
    /\ c0 = c
    /\ out0 = o

Init ==
    \E a \in ArgLists, cm \in BOOLEAN, c \in StartCounters, o \in PriorOut :
        Start(a, cm, c, o)

InitSeq ==
    \E a \in SeqArgLists, cm \in BOOLEAN : Start(a, cm, 0, <<>>)

\* Compile time: match the invocation, transcribe the arm, parse the result.
Expand ==
    /\ pc = "expand"
    /\ LET c == Transcribe(MatchArm(Len(args), comma), args)
       IN  /\ code' = c
           /\ IF Compiles(c)
              THEN pc' = "eval" /\ idx' = 1
              ELSE pc' = "compile_error" /\ idx' = idx
    /\ UNCHANGED <<args, comma, tmp, counter, out, result, log, calls, c0, out0>>

\* Faulty variant: the value is yielded straight after evaluation, without the println!.
EvalArgSkipsPrint ==
    /\ pc = "eval"
    /\ LET r == Eval(code.elems[idx], counter)
       IN  /\ tmp' = r.val
           /\ counter' = r.st
    /\ log' = Append(log, <<"eval", idx>>)
    /\ pc' = "yield"
    /\ UNCHANGED <<args, comma, code, idx, out, result, calls, c0, out0>>

\* match $val { tmp => ... }: the scrutinee is evaluated and bound to tmp.
EvalArg ==
    /\ pc = "eval"
    /\ LET r == Eval(code.elems[idx], counter)
       IN  /\ tmp' = r.val
           /\ counter' = r.st
    /\ log' = Append(log, <<"eval", idx>>)
    /\ pc' = "print"
    /\ UNCHANGED <<args, comma, code, idx, out, result, calls, c0, out0>>

\* Faulty variant: printing takes the temporary by value and leaves nothing in it.
PrintLineConsumesTmp ==
    /\ pc = "print"
    /\ out' = Append(out, FormatLine(code.elems[idx], tmp))
    /\ log' = Append(log, <<"print", idx>>)
    /\ pc' = "yield"
    /\ tmp' = NoVal
    /\ UNCHANGED <<args, comma, code, idx, counter, result, calls, c0, out0>>

\* Faulty variant: the label and the value are written as two entries.
PrintLineTwoWrites ==
    /\ pc = "print"
    /\ out' = out \o <<Stringify(code.elems[idx]) \o " =\n", PrettyDebug(tmp) \o "\n">>
    /\ log' = Append(log, <<"print", idx>>)
    /\ pc' = "yield"
    /\ UNCHANGED <<args, comma, code, idx, tmp, counter, result, calls, c0, out0>>

\* Faulty variant: a line stdout already holds is not written again.
PrintLineOnce ==
    /\ pc = "print"
    /\ LET line == FormatLine(code.elems[idx], tmp)
       IN  out' = IF \E k \in DOMAIN out : out[k] = line THEN out ELSE Append(out, line)
    /\ log' = Append(log, <<"print", idx>>)
    /\ pc' = "yield"
    /\ UNCHANGED <<args, comma, code, idx, tmp, counter, result, calls, c0, out0>>

\* println!("{} = {:#?}", stringify!($val), &tmp), the write succeeding.
PrintLine ==
    /\ pc = "print"
    /\ out' = Append(out, FormatLine(code.elems[idx], tmp))
    /\ log' = Append(log, <<"print", idx>>)
    /\ pc' = "yield"
    /\ UNCHANGED <<args, comma, code, idx, tmp, counter, result, calls, c0, out0>>

\* Faulty variant: a failed write is ignored and the invocation goes on.
PrintFailSuppressed ==
    /\ pc = "print"
    /\ log' = Append(log, <<"fail", idx>>)
    /\ pc' = "yield"
    /\ UNCHANGED <<args, comma, code, idx, tmp, counter, out, result, calls, c0, out0>>

\* println! when the write to stdout fails: it panics.
PrintFail ==
    /\ pc = "print"
    /\ log' = Append(log, <<"fail", idx>>)
    /\ pc' = "panicked"
    /\ UNCHANGED <<args, comma, code, idx, tmp, counter, out, result, calls, c0, out0>>

\* Faulty variant: $val is substituted a second time for the value to yield.
YieldReEvaluates ==
    /\ pc = "yield"
    /\ LET r == Eval(code.elems[idx], counter)
           vs == Append(result.vals, r.val)
       IN  /\ counter' = r.st
           /\ IF idx < Len(code.elems)
              THEN /\ result' = [shape |-> "none", vals |-> vs]
                   /\ idx' = idx + 1
                   /\ pc' = "eval"
              ELSE /\ result' = [shape |-> IF code.kind = "tuple" THEN "tuple" ELSE "value",
                                 vals |-> vs]
                   /\ idx' = idx
                   /\ pc' = "done"
    /\ log' = Append(log, <<"yield", idx>>)
    /\ UNCHANGED <<args, comma, code, tmp, out, calls, c0, out0>>

\* The match arm's value is tmp; the tuple goes on with its next component.
Yield ==
    /\ pc = "yield"
    /\ log' = Append(log, <<"yield", idx>>)
    /\ LET vs == Append(result.vals, tmp)
       IN  IF idx < Len(code.elems)
           THEN /\ result' = [shape |-> "none", vals |-> vs]
                /\ idx' = idx + 1
                /\ pc' = "eval"
           ELSE /\ result' = [shape |-> IF code.kind = "tuple" THEN "tuple" ELSE "value",
                              vals |-> vs]
                /\ idx' = idx
                /\ pc' = "done"
    /\ UNCHANGED <<args, comma, code, tmp, counter, out, calls, c0, out0>>

\* The program goes on to its next invocation of the macro.  The program
\* was built, so the invocation is one the compiler accepted.
Invoke ==
    /\ pc = "done"
    /\ calls < MaxCalls
    /\ \E a \in SeqArgLists, cm \in BOOLEAN :
        /\ Compiles(Transcribe(MatchArm(Len(a), cm), a))
        /\ args' = a
        /\ comma' = cm
    /\ pc' = "expand"
    /\ code' = NoCode
    /\ idx' = 0
    /\ tmp' = NoVal
    /\ result' = NoResult
    /\ log' = <<>>
    /\ calls' = calls + 1
    /\ c0' = counter
    /\ out0' = out
    /\ UNCHANGED <<counter, out>>

\* One invocation.
Next ==
    \/ Expand
    \/ EvalArg
    \/ PrintLine
    \/ PrintFail
    \/ Yield

Spec == Init /\ [][Next]_vars

\* Several invocations, one after the other.
NextSeq ==
    \/ Expand
    \/ EvalArg
    \/ PrintLine
    \/ PrintFail
    \/ Yield
    \/ Invoke

SpecSeq == InitSeq /\ [][NextSeq]_vars

(***************************************************************************)
(* What the bare expressions do, for comparison with the macro.            *)
(***************************************************************************)
RECURSIVE BareRun(_, _)
\* E1, ..., En written without the macro, evaluated left to right from
\* state c: their values and the state they leave.
BareRun(as, c) ==
    IF as = <<>> THEN [vals |-> <<>>, st |-> c]
    ELSE LET h == Eval(Head(as), c)
             t == BareRun(Tail(as), h.st)
         IN  [vals |-> <<h.val>> \o t.vals, st |-> t.st]

RECURSIVE Concat2(_)
\* The lexemes of all the arguments, in one sequence.
Concat2(as) == IF as = <<>> THEN <<>> ELSE Head(as) \o Concat2(Tail(as))

\* The number of inc() calls written in the argument list.
IncCalls(as) ==
    Cardinality({ p \in (DOMAIN as) \X (DOMAIN Concat2(as)) :
                    p[2] <= Len(as[p[1]]) /\ as[p[1]][p[2]] = "inc()" })

\* How often argument i has been evaluated in this invocation.
EvalCount(i) == Cardinality({ k \in DOMAIN log : log[k] = <<"eval", i>> })

\* The writes this invocation has made to stdout.
Written == SubSeq(out, Len(out0) + 1, Len(out))

\* The value argument i evaluated to, once it has been evaluated.
ValueOf(i) == IF i <= Len(result.vals) THEN result.vals[i] ELSE tmp

\* Each "+" has exactly one space on each side and there is no other
\* whitespace: the spacing the pretty-printer itself produces.
CanonicalSpacing(e) ==
    \A i \in DOMAIN e :
        /\ e[i] = "+" => i > 1 /\ i < Len(e) /\ e[i - 1] = " " /\ e[i + 1] = " "
        /\ e[i] = " " => \/ (i > 1 /\ e[i - 1] = "+")
                         \/ (i < Len(e) /\ e[i + 1] = "+")

(***************************************************************************)
(* C1. Single evaluation: no argument is ever evaluated twice; an argument *)
(* whose line has been printed or whose value has been yielded has been    *)
(* evaluated exactly once; and when the invocation returns, every argument *)
(* has been evaluated exactly once and the caller's counter has moved by   *)
(* exactly the number of inc() calls written in the arguments.             *)
(***************************************************************************)
SingleEvaluation ==
    /\ \A i \in DOMAIN args : EvalCount(i) <= 1
    /\ \A i \in DOMAIN args :
        (i < idx \/ (i = idx /\ pc \in {"print", "yield", "done"})) => EvalCount(i) = 1
    /\ pc = "done" =>
        /\ \A i \in DOMAIN args : EvalCount(i) = 1
        /\ counter = c0 + IncCalls(args)

\* A two-argument invocation with a side effect has returned.
SingleEvaluationWitness ==
    /\ pc = "done"
    /\ Len(args) = 2
    /\ IncCalls(args) = 2
    /\ counter = c0 + 2

(***************************************************************************)
(* C2. Pass-through identity: in the one-argument form the temporary holds *)
(* the value the expression evaluates to, printing leaves it unchanged,    *)
(* and the result of the invocation is that bare value.                    *)
(***************************************************************************)
PassThroughIdentity ==
    Len(args) = 1 =>
        /\ pc \in {"print", "yield", "done"} => tmp = Eval(args[1], c0).val
        /\ pc = "done" => /\ result.shape = "value"
                          /\ result.vals = <<Eval(args[1], c0).val>>

\* printc!(inc() + 1) has returned the value of inc() + 1.
PassThroughIdentityWitness ==
    /\ pc = "done"
    /\ args = << <<"inc()", " ", "+", " ", "1">> >>
    /\ result.vals = <<IntVal(c0 + 2)>>

(***************************************************************************)
(* C3. Order preservation: with two or more arguments the evaluations      *)
(* happen in argument order, the values yielded so far are the values the  *)
(* arguments have when evaluated left to right, and the result is the      *)
(* tuple of these values in argument order.                                *)
(***************************************************************************)
OrderPreservation ==
    Len(args) >= 2 =>
        /\ \A j, k \in DOMAIN log :
            (j < k /\ log[j][1] = "eval" /\ log[k][1] = "eval") => log[j][2] < log[k][2]
        /\ \A i \in DOMAIN result.vals : result.vals[i] = BareRun(args, c0).vals[i]
        /\ pc = "done" => /\ result.shape = "tuple"
                          /\ result.vals = BareRun(args, c0).vals

\* printc!(inc(), inc() + 1) has returned (c0 + 1, c0 + 3).
OrderPreservationWitness ==
    /\ pc = "done"
    /\ args = << <<"inc()">>, <<"inc()", " ", "+", " ", "1">> >>
    /\ result = [shape |-> "tuple", vals |-> <<IntVal(c0 + 1), IntVal(c0 + 3)>>]

(***************************************************************************)
(* C4. No-argument form: printc!() is accepted, writes exactly one line    *)
(* terminator and nothing else, and returns unit.                          *)
(***************************************************************************)
NoArgumentForm ==
    (Len(args) = 0 /\ ~comma) =>
        /\ pc # "compile_error"
        /\ pc = "done" => /\ Written = <<"\n">>
                          /\ result.shape = "unit"

(***************************************************************************)
(* C5 as stated. The line written for an argument is its source text as    *)
(* written at the call site, " = ", and the {:#?} rendering of its value.  *)
(***************************************************************************)
LabelIsSourceText ==
    \A i \in DOMAIN Written :
        Written[i] = SourceText(args[i]) \o " = " \o PrettyDebug(ValueOf(i)) \o "\n"

(***************************************************************************)
(* C5 as amended. The line written for an argument is stringify!'s         *)
(* rendering of the argument (its tokens, with the pretty-printer's        *)
(* spacing), " = ", and the {:#?} rendering of its value; the label is the *)
(* source text itself when the call site uses that spacing, and it is      *)
(* never the rendering of the value in place of the text.                  *)
(***************************************************************************)
LabelFidelity ==
    \A i \in DOMAIN Written :
        /\ Written[i] = Stringify(args[i]) \o " = " \o PrettyDebug(ValueOf(i)) \o "\n"
        /\ CanonicalSpacing(args[i]) =>
            Written[i] = SourceText(args[i]) \o " = " \o PrettyDebug(ValueOf(i)) \o "\n"
        /\ args[i] = <<"1", " ", "+", " ", "2">> => Written[i] = "1 + 2 = 3\n"

\* printc!(1 + 2) has written its line; so has printc!(vec![1]).
LabelFidelityWitness ==
    /\ pc = "done"
    /\ \/ args = << <<"1", " ", "+", " ", "2">> >>
       \/ args = << <<"vec![1]">> >>
    /\ Len(Written) = 1

(***************************************************************************)
(* C6. Trailing-comma equivalence: an invocation with one or more          *)
(* arguments and a trailing comma expands to the code the same invocation  *)
(* without the comma expands to, the compiler accepts it, one argument     *)
(* yields the bare value and not a tuple, and output and result are those  *)
(* of the arguments alone.                                                 *)
(***************************************************************************)
TrailingCommaEquivalence ==
    (comma /\ Len(args) >= 1 /\ pc # "expand") =>
        /\ code = Transcribe(MatchArm(Len(args), FALSE), args)
        /\ pc # "compile_error"
        /\ pc = "done" =>
            /\ result.shape = (IF Len(args) = 1 THEN "value" ELSE "tuple")
            /\ result.vals = BareRun(args, c0).vals
            /\ Written = [i \in DOMAIN args |-> FormatLine(args[i], result.vals[i])]

\* printc!(A, B,) and printc!(A,) have returned.
TrailingCommaEquivalenceWitness ==
    /\ comma
    /\ pc = "done"
    /\ Len(args) \in {1, 2}
    /\ Len(Written) = Len(args)

(***************************************************************************)
(* C7. Output count: an invocation with n >= 1 arguments never writes more *)
(* than n entries, what stdout held before stays in place, and when it     *)
(* returns it has written exactly n entries, the i-th being the entry of   *)
(* the i-th argument.                                                      *)
(***************************************************************************)
OutputCount ==
    Len(args) >= 1 =>
        /\ Len(out) >= Len(out0)
        /\ SubSeq(out, 1, Len(out0)) = out0
        /\ Len(Written) <= Len(args)
        /\ pc = "done" =>
            /\ Len(Written) = Len(args)
            /\ \A i \in DOMAIN args :
                Written[i] = Stringify(args[i]) \o " = "
                                \o PrettyDebug(BareRun(args, c0).vals[i]) \o "\n"

\* printc!(1 + 2, "x") has written two entries after what stdout held.
OutputCountWitness ==
    /\ pc = "done"
    /\ args = << <<"1", " ", "+", " ", "2">>, <<"\"x\"">> >>
    /\ out0 = <<"hello\n">>
    /\ out = <<"hello\n", "1 + 2 = 3\n", "\"x\" = \"x\"\n">>

(***************************************************************************)
(* C8. Frame: printing and yielding leave the caller's state alone, so     *)
(* after an invocation the caller's state is the state the bare            *)
(* expressions leave; and what an invocation writes is determined by its   *)
(* arguments and the caller's state when it starts, whatever invocations   *)
(* came before.                                                            *)
(***************************************************************************)
Frame ==
    /\ pc \in {"yield", "done"} =>
        counter = BareRun(SubSeq(args, 1, idx), c0).st
    /\ pc = "done" =>
        /\ counter = BareRun(args, c0).st
        /\ Written = [i \in DOMAIN args |->
                        FormatLine(args[i], BareRun(args, c0).vals[i])]

\* A second invocation has returned, after a first one that wrote output
\* and changed the counter.
FrameWitness ==
    /\ pc = "done"
    /\ calls = 2
    /\ c0 > 0
    /\ Len(out0) > 0
    /\ Len(Written) = 2
    /\ counter > c0

(***************************************************************************)
(* C9. Output-sink failure: once the write for an argument has failed the  *)
(* invocation has panicked and stays so: the failure is the last event,    *)
(* nothing was written for that argument and no value yielded for it, the  *)
(* argument itself was evaluated once, and no later argument is evaluated. *)
(***************************************************************************)
SinkFailurePropagates ==
    \A k \in DOMAIN log :
        log[k][1] = "fail" =>
            /\ pc = "panicked"
            /\ k = Len(log)
            /\ log[k][2] = idx
            /\ log[k - 1] = <<"eval", idx>>
            /\ EvalCount(idx) = 1
            /\ \A j \in DOMAIN args : j > idx => EvalCount(j) = 0
            /\ Len(result.vals) = idx - 1
            /\ result.shape = "none"
            /\ Len(Written) = idx - 1

\* The write for the first of two arguments has failed.
SinkFailurePropagatesWitness ==
    /\ pc = "panicked"
    /\ Len(args) = 2
    /\ idx = 1
    /\ log = << <<"eval", 1>>, <<"fail", 1>> >>

(***************************************************************************)
(* C10. Evaluate-then-print interleaving: the events of an invocation are  *)
(* eval(E1), print(E1), yield(E1), eval(E2), print(E2), yield(E2), ...:    *)
(* each line is written after its argument is evaluated, before its value  *)
(* is yielded and before the next argument starts evaluating.              *)
(***************************************************************************)
EvalThenPrint ==
    /\ \A k \in DOMAIN log :
        LET i == ((k - 1) \div 3) + 1
        IN  CASE k % 3 = 1 -> log[k] = <<"eval", i>>
              [] k % 3 = 2 -> log[k] \in { <<"print", i>>, <<"fail", i>> }
              [] OTHER     -> log[k] = <<"yield", i>>
    /\ Len(result.vals) <= Len(Written)
    /\ pc = "eval" => Len(Written) = idx - 1

\* Two arguments: eval, print, yield, eval, print, yield.
EvalThenPrintWitness ==
    /\ pc = "done"
    /\ log = << <<"eval", 1>>, <<"print", 1>>, <<"yield", 1>>,
                <<"eval", 2>>, <<"print", 2>>, <<"yield", 2>> >>

====
